---- MODULE Spec2Model ----
(***************************************************************************)
(* Shared scoreboard of src/app/page.tsx: every client keeps a mirror of   *)
(* one document stored under the key 'nerfWarsGame', writes the whole      *)
(* merged document on every mutation, and derives the countdown from       *)
(* timer.endTime and its own clock corrected by the server time offset.    *)
(*                                                                         *)
(* The store (Firebase Realtime Database) is modelled through the three    *)
(* calls the component makes: set (an unconditional overwrite, committed   *)
(* in the order the store receives the writes of each client), onValue on  *)
(* the document (the current value on subscription, then every committed   *)
(* value, in commit order) and onValue on '.info/serverTimeOffset'.        *)
(*                                                                         *)
(* Time is in milliseconds since 1970 and positive, as Date.now() and the   *)
(* server clock are.  Date.now() of a client is the wall clock plus that   *)
(* client's fixed skew.  remainingSeconds is a constant of a render: the    *)
(* component renders when it mounts, when a callback changes its state and *)
(* when the callback of its one-second interval runs, and a handler uses   *)
(* the value of the last render while serverNow() reads the clock at the   *)
(* call.                                                                   *)
(*                                                                         *)
(* budget, firstSeen, lastCommit, timerLog and the op and upd fields of a  *)
(* write in flight are history: no handler reads them.                     *)
(***************************************************************************)
EXTENDS Integers, Sequences, FiniteSets, TLC

VARIABLES
    store,       \* the value under 'nerfWarsGame': NullDoc or a document
    mirror,      \* mirror[c]: the React state `state` of client c
    timeOffset,  \* timeOffset[c]: the React state `timeOffset` of client c
    life,        \* life[c]: "init" (effect not run), "on" (subscribed), "off" (cleaned up)
    firstSeen,   \* firstSeen[c]: what the first run of c's snapshot callback saw:
                 \* "none" (it has not run), "empty" (null) or "doc"
    outbox,      \* outbox[c]: writes of c the store has not committed yet, oldest first
    inbox,       \* inbox[c]: snapshots the store has sent to c and c has not processed
    wall,        \* the wall clock (server time), milliseconds
    rendered,    \* rendered[c]: the wall-clock instant of the last render of client c
    budget,      \* number of mutations the exploration still allows
    lastCommit,  \* history: <<[by, op]>>, the client and handler of the write the
                 \* store committed last; <<>> before the first commit
    timerLog     \* history: timerLog[c] = <<r>> while c's last handleResume call r
                 \* (what it showed, what it wrote, when) has been followed by no
                 \* other mutation and no change of c's clock offset; else <<>>

vars == <<store, mirror, timeOffset, life, firstSeen, outbox, inbox, wall, rendered,
          budget, lastCommit, timerLog>>

----------------------------------------------------------------------------
(* Bounds and input sets *)

\* Mutations explored by the complete system, by the synchronisation
\* protocol with every handler, by the races between player edits and by the
\* timer protocol.
MaxWrites == 1

MaxSyncWrites == 1

MaxRaceWrites == 2

MaxTimerWrites == 2

\* Mutations explored with the clocks, the renders and the timer buttons on a
\* match that is running or paused.
MaxClockWrites == 1

\* Mutations explored with the score buttons, the score reset and the mode switch.
MaxBoardWrites == 2

\* Mutations explored with clients that unsubscribe.
MaxCancelWrites == 1

Clients == {"c1", "c2"}

\* Date.now() - wall for each client: the local clocks are not synchronised.
Skew == [c1 |-> 2500, c2 |-> -1300]

\* The instants the wall clock takes (Tick jumps to any later one); they are
\* further apart than the longest of Lags.
Instants == {10000, 310000, 610000}

\* How long before an instant a mounted client's interval callback may have
\* run last.  setInterval(..., 1000) never fires early and may fire late: at
\* the instant itself, a period and a millisecond earlier (the next callback
\* is due), or a minute earlier (a throttled timer).
Lags == {0, 1001, 60000}

\* What an input box may be changed to.
NewNames == {"Zed"}

Teams == {"playersA", "playersB"}

----------------------------------------------------------------------------
(* Values *)

\* JavaScript null for a number: the empty tuple; a number n is <<n>>.
Null == <<>>

Some(n) == <<n>>

\* snapshot.val() === null: nothing is stored under the key.
NullDoc == [isNull |-> TRUE]

\* The outcome of code that throws "TypeError: Cannot read properties of
\* undefined (reading 'length')".
TypeError == [error |-> "TypeError"]

INITIAL_TIMER_SECONDS == 450

MinRoster == 3

Player(n, s) == [name |-> n, score |-> s]

\* `Player ${k} Name`
PlaceholderName(k) ==
    <<"Player 1 Name", "Player 2 Name", "Player 3 Name", "Player 4 Name">>[k]

initialState ==
    [playersA |-> <<Player("Player 1 Name", 0), Player("Player 2 Name", 0)>>,
     playersB |-> <<Player("Player 1 Name", 0), Player("Player 2 Name", 0)>>,
     timer |-> [endTime |-> Null],
     isPaused |-> TRUE,
     pointsToWin |-> 50,
     numPlayersPerTeam |-> 2]

Fields == DOMAIN initialState

\* A document written by an earlier version of the page: short rosters and no
\* other field.  (The store keeps no empty list: both rosters have players.)
LegacyDoc ==
    [playersA |-> <<Player("Ann", 1)>>,
     playersB |-> <<Player("Bea", 0), Player("Cal", 2)>>]

\* A document left by an earlier session: a match started at server time
\* 10000 with the full 450 s and still running.
RunningDoc ==
    [playersA |-> <<Player("Player 1 Name", 0), Player("Player 2 Name", 0),
                    Player("Player 3 Name", 0)>>,
     playersB |-> <<Player("Player 1 Name", 0), Player("Player 2 Name", 0),
                    Player("Player 3 Name", 0)>>,
     timer |-> [endTime |-> Some(460000)],
     isPaused |-> FALSE,
     pointsToWin |-> 50,
     numPlayersPerTeam |-> 2]

\* A document left by an earlier session: a paused 3-against-3 match in which
\* players have scored.
MatchDoc ==
    [playersA |-> <<Player("Ann", 1), Player("Bob", 0), Player("Cy", 3)>>,
     playersB |-> <<Player("Dee", 0), Player("Eve", 1), Player("Fay", 2)>>,
     timer |-> [endTime |-> Null],
     isPaused |-> TRUE,
     pointsToWin |-> 50,
     numPlayersPerTeam |-> 3]

\* The same match after a pause: the end time is still there.
PausedDoc == [RunningDoc EXCEPT !.isPaused = TRUE]

\* What the key may hold when the first client of a session connects.
InitialStores == {NullDoc, LegacyDoc, RunningDoc}

Max(a, b) == IF a >= b THEN a ELSE b

Last(s) == s[Len(s)]

----------------------------------------------------------------------------
(* Pure functions of the component *)

\* Mutant: the placeholders are put in front of the roster (unshift).
PadFront(r, n) ==
    IF Len(r) < n
    THEN [k \in 1 .. (n - Len(r)) |-> Player(PlaceholderName(k), 0)] \o r
    ELSE r

\* Mutant: no placeholder is appended.
PadNothing(r, n) == r

\* while (r.length < n) r.push({ name: `Player ${r.length + 1} Name`, score: 0 })
RECURSIVE Pad(_, _)
Pad(r, n) ==
    IF Len(r) < n
    THEN Pad(Append(r, Player(PlaceholderName(Len(r) + 1), 0)), n)
    ELSE r

\* Mutant: the loop runs once more (<= 3): both rosters are padded to 4.
RepairToFour(data) ==
    [f \in DOMAIN data |-> IF f \in Teams THEN Pad(data[f], MinRoster + 1) ELSE data[f]]

\* The forEach of the snapshot callback: both rosters padded to 3; data[team]
\* of a document without that roster is undefined and reading its length throws.
Repair(data) ==
    IF \E t \in Teams : t \notin DOMAIN data
    THEN TypeError
    ELSE [f \in DOMAIN data |-> IF f \in Teams THEN Pad(data[f], MinRoster) ELSE data[f]]

\* { ...a, ...b }
Spread(a, b) ==
    [f \in (DOMAIN a) \cup (DOMAIN b) |-> IF f \in DOMAIN b THEN b[f] ELSE a[f]]

\* Mutant: the defaults are spread last and win over the data.
NormalizeDefaultsWin(data) == Spread(Repair(data), initialState)

\* The state set by setState({ ...initialState, ...data }) after the repair;
\* none when the repair throws.
Normalize(data) ==
    IF Repair(data) = TypeError THEN TypeError ELSE Spread(initialState, Repair(data))

\* Mutant: the update is merged over the defaults, not over the mirror.
UpdateStateOverDefaults(st, newState) == Spread(initialState, newState)

\* { ...state, ...newState }, the document updateState writes
UpdateState(st, newState) == Spread(st, newState)

\* newPlayers = state[team].slice(); newPlayers[index] = {...newPlayers[index], ...updates}
UpdatePlayer(st, team, index, updates) ==
    team :> [st[team] EXCEPT ![index] = Spread(@, updates)]

\* Date.now() of client c at wall-clock instant t
DateAt(c, t) == t + Skew[c]

\* Date.now()
DateNow(c) == DateAt(c, wall)

\* Mutant: the clock offset is not applied.
serverNowAtLocal(c, t) == DateAt(c, t)

\* Date.now() + timeOffset, called at wall-clock instant t
serverNowAt(c, t) == DateAt(c, t) + timeOffset[c]

\* serverNow() called by a handler: the clock is read at the call.
serverNow(c) == serverNowAt(c, wall)

\* state.timer.endTime ? ... : ...   (null and 0 are both falsy)
Truthy(e) == e # Null /\ e[1] # 0

\* Math.floor(x / 1000)
FloorSec(ms) == ms \div 1000

\* Mutant: the clamp Math.max(0, ...) is missing.
RemainingOfUnclamped(endTime, now) ==
    IF Truthy(endTime) THEN FloorSec(endTime[1] - now) ELSE INITIAL_TIMER_SECONDS

\* state.timer.endTime ? Math.max(0, Math.floor((endTime - now) / 1000)) : 450
RemainingOf(endTime, now) ==
    IF Truthy(endTime)
    THEN Max(0, FloorSec(endTime[1] - now))
    ELSE INITIAL_TIMER_SECONDS

\* The constant remainingSeconds of the last render of client c.
remainingSeconds(c) ==
    RemainingOf(mirror[c].timer.endTime, serverNowAt(c, rendered[c]))

\* snap.val() || 0
OffsetOf(sample) == IF sample = Null \/ sample[1] = 0 THEN 0 ELSE sample[1]

\* What the '.info/serverTimeOffset' feed may hand to client c: nothing, or
\* the difference between the server clock and c's clock.
OffsetSamples(c) == {Null, Some(-Skew[c])}

----------------------------------------------------------------------------
(* The store *)

\* Mutant: the store merges below the top level and keeps, player by player,
\* the higher score of playersA.
StoreSetMerge(cur, value) ==
    IF cur = NullDoc \/ "playersA" \notin DOMAIN cur
    THEN value
    ELSE [value EXCEPT
            !.playersA = [k \in DOMAIN value.playersA |->
                            IF k \in DOMAIN cur.playersA
                               /\ cur.playersA[k].score > value.playersA[k].score
                            THEN cur.playersA[k]
                            ELSE value.playersA[k]]]

\* set(ref, value): the value replaces whatever is stored.
StoreSet(cur, value) == value

\* A write in flight: the document, and (for the properties) which handler
\* issued it and the partial update it was built from.
Msg(d, op, upd) == [doc |-> d, op |-> op, upd |-> upd]

Subscribers == {c \in Clients : life[c] = "on"}

----------------------------------------------------------------------------
\* Every client has just mounted: useState(initialState), useState(0).
Boot(stores, mutations) ==
    /\ store \in stores
    /\ mirror = [c \in Clients |-> initialState]
    /\ timeOffset = [c \in Clients |-> 0]
    /\ life = [c \in Clients |-> "init"]
    /\ firstSeen = [c \in Clients |-> "none"]
    /\ outbox = [c \in Clients |-> <<>>]
    /\ inbox = [c \in Clients |-> <<>>]
    /\ wall = 10000
    /\ rendered = [c \in Clients |-> 10000]
    /\ budget = mutations
    /\ lastCommit = <<>>
    /\ timerLog = [c \in Clients |-> <<>>]

Init == Boot(InitialStores, MaxWrites)

\* The component mounts: the first render, then the mount effects (both
\* onValue subscriptions, and setInterval); the store sends the current value.
Subscribe(c) ==
    /\ life[c] = "init"
    /\ life' = [life EXCEPT ![c] = "on"]
    /\ inbox' = [inbox EXCEPT ![c] = <<store>>]
    /\ rendered' = [rendered EXCEPT ![c] = wall]
    /\ UNCHANGED <<store, lastCommit, mirror, timeOffset, firstSeen, outbox, wall, budget, timerLog>>

\* The effect's cleanup: offsetUnsub(); dataUnsub().
Cleanup(c) ==
    /\ life[c] = "on"
    /\ life' = [life EXCEPT ![c] = "off"]
    /\ inbox' = [inbox EXCEPT ![c] = <<>>]
    /\ timerLog' = [timerLog EXCEPT ![c] = <<>>]
    /\ UNCHANGED <<store, lastCommit, mirror, timeOffset, firstSeen, outbox, wall, rendered, budget>>

\* Mutant: the cleanup does not call offsetUnsub(); the offset callback goes
\* on running after it.
OffsetSampleNeverReleased(c, sample) ==
    /\ life[c] # "init"
    /\ timeOffset' = [timeOffset EXCEPT ![c] = OffsetOf(sample)]
    /\ timerLog' = [timerLog EXCEPT
                      ![c] = IF OffsetOf(sample) = timeOffset[c] THEN @ ELSE <<>>]
    /\ rendered' = [rendered EXCEPT
                      ![c] = IF OffsetOf(sample) = timeOffset[c] THEN @ ELSE wall]
    /\ UNCHANGED <<store, lastCommit, mirror, life, firstSeen, outbox, inbox, wall, budget>>

\* The callback of onValue(offsetRef): setTimeOffset(snap.val() || 0).  React
\* renders again when the value differs from the state it replaces.
OffsetSample(c, sample) ==
    /\ life[c] = "on"
    /\ timeOffset' = [timeOffset EXCEPT ![c] = OffsetOf(sample)]
    /\ timerLog' = [timerLog EXCEPT
                      ![c] = IF OffsetOf(sample) = timeOffset[c] THEN @ ELSE <<>>]
    /\ rendered' = [rendered EXCEPT
                      ![c] = IF OffsetOf(sample) = timeOffset[c] THEN @ ELSE wall]
    /\ UNCHANGED <<store, lastCommit, mirror, life, firstSeen, outbox, inbox, wall, budget>>

\* The callback of onValue(scoreboardRef) on the oldest unprocessed snapshot.
\* setState(initialState) on a mirror that is initialState renders nothing;
\* when the repair loop throws, setState is not reached.
Snapshot(c) ==
    /\ life[c] = "on"
    /\ inbox[c] # <<>>
    /\ LET data == Head(inbox[c]) IN
         /\ inbox' = [inbox EXCEPT ![c] = Tail(@)]
         /\ firstSeen' = [firstSeen EXCEPT
                            ![c] = IF @ # "none" THEN @
                                   ELSE IF data = NullDoc THEN "empty" ELSE "doc"]
         /\ IF data = NullDoc
            THEN /\ outbox' = [outbox EXCEPT
                                 ![c] = Append(@, Msg(initialState, "bootstrap", initialState))]
                 /\ mirror' = [mirror EXCEPT ![c] = initialState]
                 /\ rendered' = [rendered EXCEPT
                                   ![c] = IF mirror[c] = initialState THEN @ ELSE wall]
            ELSE IF Normalize(data) = TypeError
            THEN UNCHANGED <<outbox, mirror, rendered>>
            ELSE /\ mirror' = [mirror EXCEPT ![c] = Normalize(data)]
                 /\ rendered' = [rendered EXCEPT ![c] = wall]
                 /\ UNCHANGED outbox
    /\ UNCHANGED <<store, lastCommit, timeOffset, life, wall, budget, timerLog>>

\* The store commits the oldest write in flight of client c and sends the new
\* value to every subscriber.
Commit(c) ==
    /\ outbox[c] # <<>>
    /\ store' = StoreSet(store, Head(outbox[c]).doc)
    /\ lastCommit' = <<[by |-> c, op |-> Head(outbox[c]).op]>>
    /\ outbox' = [outbox EXCEPT ![c] = Tail(@)]
    /\ inbox' = [d \in Clients |->
                   IF d \in Subscribers THEN Append(inbox[d], store') ELSE inbox[d]]
    /\ UNCHANGED <<mirror, timeOffset, life, firstSeen, wall, rendered, budget, timerLog>>

\* The callback of setInterval(..., 1000) of client c: setLocalTime(Date.now())
\* and the render that follows.
IntervalFires(c) ==
    /\ life[c] = "on"
    /\ rendered[c] < wall
    /\ rendered' = [rendered EXCEPT ![c] = wall]
    /\ UNCHANGED <<store, lastCommit, mirror, timeOffset, life, firstSeen, outbox, inbox, wall,
                   budget, timerLog>>

\* Wall-clock time passes, minutes of it: the interval callback of every
\* mounted client has run meanwhile, the last time one of Lags before the new
\* instant, and no handler has.
Tick(t) ==
    /\ t \in Instants
    /\ t > wall
    /\ wall' = t
    /\ \E lag \in [Clients -> Lags] :
          rendered' = [c \in Clients |->
                         IF life[c] = "on" THEN t - lag[c] ELSE rendered[c]]
    /\ UNCHANGED <<store, lastCommit, mirror, timeOffset, life, firstSeen, outbox, inbox,
                   budget, timerLog>>

\* updateState(newState) called by handler `op` of client c.
Issue(c, op, newState) ==
    /\ life[c] = "on"
    /\ budget > 0
    /\ budget' = budget - 1
    /\ outbox' = [outbox EXCEPT
                    ![c] = Append(@, Msg(UpdateState(mirror[c], newState), op, newState))]
    /\ UNCHANGED <<store, lastCommit, mirror, timeOffset, life, firstSeen, inbox, wall, rendered>>

\* History only: a mutation that is no handleResume call.
ClosePauseWindows == timerLog' = [c \in Clients |-> <<>>]

\* History only: handleResume of client c, showing `shown`, wrote the document
\* it has just appended to its outbox.
LogTimerOp(c, op, shown) ==
    timerLog' = [d \in Clients |->
                   IF d = c
                   THEN <<[op |-> op, shown |-> shown, at |-> wall,
                           doc |-> Last(outbox'[c]).doc]>>
                   ELSE <<>>]

\* The players TeamPanel shows: state[team].slice(0, state.numPlayersPerTeam).
Shown(c, team) ==
    1 .. (IF mirror[c].numPlayersPerTeam < Len(mirror[c][team])
          THEN mirror[c].numPlayersPerTeam ELSE Len(mirror[c][team]))

\* The + button.
IncScore(c, team, i) ==
    /\ i \in Shown(c, team)
    /\ Issue(c, "score",
             UpdatePlayer(mirror[c], team, i, [score |-> mirror[c][team][i].score + 1]))
    /\ ClosePauseWindows

\* Mutant: the - button without Math.max(0, ...).
DecScoreUnclamped(c, team, i) ==
    /\ i \in Shown(c, team)
    /\ Issue(c, "score",
             UpdatePlayer(mirror[c], team, i, [score |-> mirror[c][team][i].score - 1]))
    /\ ClosePauseWindows

\* The - button.
DecScore(c, team, i) ==
    /\ i \in Shown(c, team)
    /\ Issue(c, "score",
             UpdatePlayer(mirror[c], team, i,
                          [score |-> Max(0, mirror[c][team][i].score - 1)]))
    /\ ClosePauseWindows

\* The 0 button.
ZeroScore(c, team, i) ==
    /\ i \in Shown(c, team)
    /\ Issue(c, "score", UpdatePlayer(mirror[c], team, i, [score |-> 0]))
    /\ ClosePauseWindows

\* The name input's onChange.
Rename(c, team, i, n) ==
    /\ i \in Shown(c, team)
    /\ Issue(c, "name", UpdatePlayer(mirror[c], team, i, [name |-> n]))
    /\ ClosePauseWindows

\* Mutant: the end time is taken from the uncorrected local clock.
ResumeEndTimeLocal(c) == DateNow(c) + remainingSeconds(c) * 1000

\* now + remainingSeconds * 1000, with now = serverNow()
ResumeEndTime(c) == serverNow(c) + remainingSeconds(c) * 1000

\* handleResume, the branch taken while isPaused.
Resume(c) ==
    /\ mirror[c].isPaused
    /\ Issue(c, "resume",
             [timer |-> [endTime |-> Some(ResumeEndTime(c))], isPaused |-> FALSE])
    /\ LogTimerOp(c, "resume", remainingSeconds(c))

\* Mutant: the pause also clears the end time.
PauseClearingEnd(c) ==
    /\ ~mirror[c].isPaused
    /\ Issue(c, "pause", [timer |-> [endTime |-> Null], isPaused |-> TRUE])
    /\ LogTimerOp(c, "pause", remainingSeconds(c))

\* handleResume, the branch taken while running.
Pause(c) ==
    /\ ~mirror[c].isPaused
    /\ Issue(c, "pause", [isPaused |-> TRUE])
    /\ LogTimerOp(c, "pause", remainingSeconds(c))

\* Mutant: the reset pauses and leaves the end time in place.
handleResetTimerKeepingEnd(c) ==
    /\ Issue(c, "resetTimer", [isPaused |-> TRUE])
    /\ ClosePauseWindows

handleResetTimer(c) ==
    /\ Issue(c, "resetTimer", [timer |-> [endTime |-> Null], isPaused |-> TRUE])
    /\ ClosePauseWindows

\* state[team].map(p => ({ ...p, score: 0 }))
ZeroAll(r) == [k \in DOMAIN r |-> Spread(r[k], [score |-> 0])]

handleResetScores(c) ==
    /\ Issue(c, "resetScores",
             [playersA |-> ZeroAll(mirror[c].playersA),
              playersB |-> ZeroAll(mirror[c].playersB)])
    /\ ClosePauseWindows

\* Mutant: the rosters are cut to the requested size before they are padded.
handleModeTruncating(c, num) ==
    /\ Issue(c, "mode",
             [numPlayersPerTeam |-> num,
              playersA |-> Pad(SubSeq(mirror[c].playersA, 1,
                                      IF Len(mirror[c].playersA) < num
                                      THEN Len(mirror[c].playersA) ELSE num), num),
              playersB |-> Pad(SubSeq(mirror[c].playersB, 1,
                                      IF Len(mirror[c].playersB) < num
                                      THEN Len(mirror[c].playersB) ELSE num), num)])
    /\ ClosePauseWindows

handleMode(c, num) ==
    /\ Issue(c, "mode",
             [numPlayersPerTeam |-> num,
              playersA |-> Pad(mirror[c].playersA, num),
              playersB |-> Pad(mirror[c].playersB, num)])
    /\ ClosePauseWindows

\* The inputs of the player buttons and of the name box that are explored.
ScoreCells == {<<"playersA", 1>>, <<"playersB", 3>>}

NameCells == {<<"playersB", 1>>, <<"playersA", 1>>}

Connect == \E c \in Clients : Subscribe(c)

Disconnect == \E c \in Clients : Cleanup(c)

OffsetFeed == \E c \in Clients : \E s \in OffsetSamples(c) : OffsetSample(c, s)

DocFeed == \E c \in Clients : Snapshot(c)

StoreStep == \E c \in Clients : Commit(c)

TimePasses == \E t \in Instants : Tick(t)

Renders == \E c \in Clients : IntervalFires(c)

ScoreButtons ==
    \/ \E c \in Clients, x \in ScoreCells : IncScore(c, x[1], x[2])
    \/ \E c \in Clients, x \in ScoreCells : DecScore(c, x[1], x[2])
    \/ \E c \in Clients, x \in ScoreCells : ZeroScore(c, x[1], x[2])

NameBox == \E c \in Clients, x \in NameCells, n \in NewNames : Rename(c, x[1], x[2], n)

TimerButtons ==
    \/ \E c \in Clients : Resume(c)
    \/ \E c \in Clients : Pause(c)
    \/ \E c \in Clients : handleResetTimer(c)

BoardButtons ==
    \/ \E c \in Clients : handleResetScores(c)
    \/ \E c \in Clients, num \in {2, 3} : handleMode(c, num)

\* The complete system.
Next ==
    \/ Connect
    \/ Disconnect
    \/ OffsetFeed
    \/ DocFeed
    \/ StoreStep
    \/ TimePasses
    \/ Renders
    \/ ScoreButtons
    \/ NameBox
    \/ TimerButtons
    \/ BoardButtons

Spec == Init /\ [][Next]_vars

\* The synchronisation protocol at one instant, with the clock offsets unset:
\* every handler, the store and the document feed.
InitSync == Boot(InitialStores, MaxSyncWrites)

NextSync ==
    \/ Connect
    \/ DocFeed
    \/ StoreStep
    \/ ScoreButtons
    \/ NameBox
    \/ TimerButtons
    \/ BoardButtons

SpecSync == InitSync /\ [][NextSync]_vars

\* The store commits every write it has received and every subscriber's
\* callback runs on every snapshot sent to it.
FairSync ==
    /\ SpecSync
    /\ \A c \in Clients : WF_vars(Commit(c)) /\ WF_vars(Snapshot(c))

\* Concurrent player edits: the store, the document feed, the score buttons
\* and the name box.
InitRace == Boot(InitialStores, MaxRaceWrites)

NextRace ==
    \/ Connect
    \/ DocFeed
    \/ StoreStep
    \/ ScoreButtons
    \/ NameBox

SpecRace == InitRace /\ [][NextRace]_vars

\* The board: the store, the document feed, the score buttons, the score reset
\* and the mode switch.
InitBoard == Boot({NullDoc, LegacyDoc, MatchDoc}, MaxBoardWrites)

NextBoard ==
    \/ Connect
    \/ DocFeed
    \/ StoreStep
    \/ ScoreButtons
    \/ BoardButtons

SpecBoard == InitBoard /\ [][NextBoard]_vars

\* Mounting and unmounting: both feeds, the cleanup, the store and the score
\* buttons.
InitCancel == Boot(InitialStores, MaxCancelWrites)

NextCancel ==
    \/ Connect
    \/ Disconnect
    \/ OffsetFeed
    \/ DocFeed
    \/ StoreStep
    \/ ScoreButtons

SpecCancel == InitCancel /\ [][NextCancel]_vars

\* The timer protocol on a match in progress: clocks, offsets, the store,
\* the feeds and the three timer buttons.
InitTimer == Boot({RunningDoc}, MaxTimerWrites)

NextTimer ==
    \/ Connect
    \/ OffsetFeed
    \/ DocFeed
    \/ StoreStep
    \/ TimePasses
    \/ Renders
    \/ TimerButtons

SpecTimer == InitTimer /\ [][NextTimer]_vars

\* The same protocol from a match that is running or paused, fewer mutations.
InitClock == Boot({RunningDoc, PausedDoc}, MaxClockWrites)

SpecClock == InitClock /\ [][NextTimer]_vars

----------------------------------------------------------------------------
(* Properties of the timer *)

\* The corrected current time of client c, as the page's formula states it.
CorrectedNow(c) == wall + Skew[c] + timeOffset[c]

\* The corrected time of client c at its last render, when the remaining
\* seconds it shows were computed.
CorrectedAtRender(c) == rendered[c] + Skew[c] + timeOffset[c]

\* Client c's last handleResume call was of kind op, nothing has been
\* mutated since and c's mirror is the echo of what it wrote.
Echoed(c, op) ==
    /\ life[c] = "on"
    /\ timerLog[c] # <<>>
    /\ timerLog[c][1].op = op
    /\ mirror[c] = Normalize(timerLog[c][1].doc)

\* C1 (as claimed): a client that pauses a running timer while showing R
\* seconds, R being the value of a render made at the instant of the pause,
\* and resumes it later, with no other mutation and no change of its clock
\* offset in between, shows R seconds right after the resume, however long
\* the pause lasted.
C1_PauseWaitResume ==
    [][\A c \in Clients :
          (/\ Echoed(c, "pause")
           /\ timerLog[c][1].shown =
                RemainingOf(timerLog[c][1].doc.timer.endTime,
                            timerLog[c][1].at + Skew[c] + timeOffset[c])
           /\ timerLog'[c] # <<>>
           /\ timerLog'[c][1].op = "resume")
          => RemainingOf(timerLog'[c][1].doc.timer.endTime, CorrectedNow(c))
               = timerLog[c][1].shown]_vars

\* C2 (as claimed): while a client's mirror is paused with an end time, the
\* remaining seconds it computes do not change when only the wall clock
\* advances and the client renders again.
C2_PausedIsFrozen ==
    [][\A c \in Clients :
          (/\ life[c] = "on"
           /\ mirror[c].isPaused
           /\ mirror[c].timer.endTime # Null
           /\ mirror'[c] = mirror[c]
           /\ timeOffset'[c] = timeOffset[c])
          => RemainingOf(mirror'[c].timer.endTime,
                         rendered'[c] + Skew[c] + timeOffset'[c])
               = remainingSeconds(c)]_vars

\* C4: in every state and for every client, remainingSeconds is never
\* negative, is 450 when the mirror has no end time, and otherwise is 0 when
\* the end time is before the corrected time of the render that computed it
\* and else the whole number of seconds from that corrected time to the end
\* time.
C4_RemainingFormula ==
    \A c \in Clients :
        LET e == mirror[c].timer.endTime
            r == remainingSeconds(c)
        IN  /\ r >= 0
            /\ e = Null => r = INITIAL_TIMER_SECONDS
            /\ e # Null =>
                  IF e[1] - CorrectedAtRender(c) < 0
                  THEN r = 0
                  ELSE /\ r * 1000 <= e[1] - CorrectedAtRender(c)
                       /\ e[1] - CorrectedAtRender(c) < (r + 1) * 1000

\* C4's case: a subscribed client, its clock offset set, whose mirror holds an
\* end time that is already in the past by a fraction of a second count.
C4_Witness ==
    \E c \in Clients :
        /\ life[c] = "on"
        /\ timeOffset[c] # 0
        /\ mirror[c].timer.endTime # Null
        /\ rendered[c] = wall
        /\ mirror[c].timer.endTime[1] - CorrectedAtRender(c) < 0
        /\ (CorrectedAtRender(c) - mirror[c].timer.endTime[1]) % 1000 # 0
        /\ remainingSeconds(c) = 0

\* C5: when a client resumes while showing R seconds and its own write comes
\* back into its mirror at the same instant and with the same clock offset,
\* it shows R seconds.
C5_ResumeThenRead ==
    \A c \in Clients :
        (Echoed(c, "resume") /\ timerLog[c][1].at = wall)
        => remainingSeconds(c) = timerLog[c][1].shown

\* C5's case: the echo of a resume at a negative clock offset, part of the
\* duration already used.
C5_Witness ==
    \E c \in Clients :
        /\ Echoed(c, "resume")
        /\ timerLog[c][1].at = wall
        /\ timeOffset[c] < 0
        /\ timerLog[c][1].shown > 0
        /\ timerLog[c][1].shown < INITIAL_TIMER_SECONDS

----------------------------------------------------------------------------
(* Properties of the synchronisation *)

\* The players of document d whose attribute attr differs from document m.
CellDiff(attr, d, m) ==
    UNION {{<<t, i>> : i \in {j \in 1 .. Len(m[t]) :
                                 j <= Len(d[t]) /\ d[t][j][attr] # m[t][j][attr]}} :
           t \in Teams}

\* Document d is document m with exactly one player's attribute attr changed.
OneChange(attr, d, m) ==
    /\ DOMAIN d = DOMAIN m
    /\ \A f \in DOMAIN m \ Teams : d[f] = m[f]
    /\ \A t \in Teams : Len(d[t]) = Len(m[t])
    /\ Cardinality(CellDiff(attr, d, m)) = 1
    /\ \A other \in {"name", "score"} \ {attr} : CellDiff(other, d, m) = {}

\* The store commits the oldest write in flight of client c.
Commits(c) == outbox[c] # <<>> /\ outbox'[c] = Tail(outbox[c])

\* C3: two clients hold the same mirror M; one has changed a score and the
\* other a name, each from M; the store holds the first write and commits the
\* second.  Then the store holds exactly the document of the second write:
\* M with the second client's change alone, the first client's change gone.
C3_LastWriteWins ==
    [][\A a, b \in Clients : \A ka, kb \in {"name", "score"} :
          (/\ a # b
           /\ ka # kb
           /\ mirror[a] = mirror[b]
           /\ lastCommit = <<[by |-> a, op |-> ka]>>
           /\ OneChange(ka, store, mirror[a])
           /\ outbox[a] = <<>>
           /\ Len(outbox[b]) = 1
           /\ outbox[b][1].op = kb
           /\ OneChange(kb, outbox[b][1].doc, mirror[b])
           /\ Commits(b))
          => /\ store' = outbox[b][1].doc
             /\ CellDiff(ka, store', mirror[a]) = {}
             /\ OneChange(kb, store', mirror[b])]_vars

\* C3's case: both clients still hold M and both writes are committed, the
\* score change first and the name change last, neither delivered yet.
C3_Witness ==
    \E a, b \in Clients :
        /\ a # b
        /\ mirror[a] = mirror[b]
        /\ lastCommit = <<[by |-> b, op |-> "name"]>>
        /\ Len(inbox[a]) >= 2
        /\ OneChange("score", inbox[a][Len(inbox[a]) - 1], mirror[a])
        /\ Last(inbox[a]) = store
        /\ OneChange("name", store, mirror[a])

\* The document the snapshot callback is claimed to expose for a stored
\* document d: the rosters padded to 3, the missing fields from the defaults.
Exposed(d) == Spread(initialState, Repair(d))

\* Every subscriber's mirror is what the callback exposes for the store's value.
Converged == \A c \in Subscribers : store # NullDoc /\ mirror[c] = Exposed(store)

\* C6: once the mutations have stopped, and since the store commits and
\* delivers every write, from some point on every subscriber's mirror is the
\* repaired and default-merged value of the store, for good.
C6_Convergence == <>[]Converged

\* C6's case: both clients subscribed, the mutations made, nothing left in
\* flight, and both mirrors equal to the repaired value of the store.
C6_Witness ==
    /\ Subscribers = Clients
    /\ budget = 0
    /\ \A c \in Clients : outbox[c] = <<>> /\ inbox[c] = <<>>
    /\ store \notin {NullDoc, initialState}
    /\ Converged

\* C7 (as claimed): when two clients have both seen the key empty and each has
\* written the default document, a bootstrap write the store commits replaces
\* an empty key or a document equal to the default, never another document the
\* other client has written.
C7_BootstrapHarmless ==
    [][\A c, d \in Clients :
          (/\ c # d
           /\ firstSeen[c] = "empty"
           /\ firstSeen[d] = "empty"
           /\ lastCommit # <<>> => lastCommit[1].by = d
           /\ Commits(c)
           /\ Head(outbox[c]).op = "bootstrap")
          => store \in {NullDoc, initialState}]_vars

\* Client c calls updateState: a write other than the bootstrap write joins
\* its writes in flight.
Mutates(c) ==
    /\ Len(outbox'[c]) = Len(outbox[c]) + 1
    /\ Last(outbox'[c]).op # "bootstrap"

\* C8: the document of every updateState call has each field named in the
\* partial update from the update and every other field from the caller's
\* mirror at the call.
C8_ShallowMerge ==
    [][\A c \in Clients :
          Mutates(c) =>
            LET m == Last(outbox'[c]) IN
              /\ DOMAIN m.doc = Fields
              /\ \A f \in Fields :
                    m.doc[f] = IF f \in DOMAIN m.upd THEN m.upd[f] ELSE mirror[c][f]]_vars

\* C8's case: a name change in flight that carries the running timer of the
\* caller's mirror.
C8_Witness ==
    \E c \in Clients :
        /\ outbox[c] # <<>>
        /\ Last(outbox[c]).op = "name"
        /\ Last(outbox[c]).doc.timer.endTime # Null
        /\ ~Last(outbox[c]).doc.isPaused
        /\ Last(outbox[c]).doc = [mirror[c] EXCEPT !.playersB[1].name = "Zed"]
        /\ Last(outbox[c]).doc.playersB[1].name \in NewNames

\* The snapshot callback of client c runs on a stored document.
Observes(c) ==
    /\ life[c] = "on"
    /\ inbox[c] # <<>>
    /\ Head(inbox[c]) # NullDoc
    /\ inbox'[c] = Tail(inbox[c])

\* C9: when the callback runs on a document with a roster of n < 3 players,
\* the mirror's roster has 3 players, the first n are the document's, in
\* order, and the player at each later position k is "Player k Name", score 0.
C9_RepairPass ==
    [][\A c \in Clients : \A t \in Teams :
          (Observes(c) /\ Len(Head(inbox[c])[t]) < 3) =>
            LET r == Head(inbox[c])[t]
                m == mirror'[c][t]
            IN  /\ Len(m) = Max(3, Len(r))
                /\ \A k \in 1 .. Len(r) : m[k] = r[k]
                /\ \A k \in (Len(r) + 1) .. 3 :
                      m[k] = [name |-> <<"Player 1 Name", "Player 2 Name",
                                         "Player 3 Name">>[k],
                              score |-> 0]]_vars

\* C9's case: the legacy document, rosters of 1 and 2 players, has been
\* repaired into a mirror.
C9_Witness ==
    \E c \in Clients :
        /\ firstSeen[c] = "doc"
        /\ store = LegacyDoc
        /\ mirror[c].playersA =
             <<Player("Ann", 1), Player("Player 2 Name", 0), Player("Player 3 Name", 0)>>
        /\ mirror[c].playersB =
             <<Player("Bea", 0), Player("Cal", 2), Player("Player 3 Name", 0)>>

\* C10 (as claimed): once a client's callback has run, both rosters of its
\* mirror have at least 3 players, and so have both rosters of every document
\* the clients have put in the store.
C10_RostersAtLeastThree ==
    /\ \A c \in Clients :
          firstSeen[c] # "none" => \A t \in Teams : Len(mirror[c][t]) >= 3
    /\ lastCommit # <<>> => \A t \in Teams : Len(store[t]) >= 3

----------------------------------------------------------------------------
(* Properties of the rosters and of the scores *)

\* Document d has every field of ScoreboardState.
Complete(d) == d # NullDoc /\ DOMAIN d = Fields

\* numPlayersPerTeam of document d is 2 or 3 and no roster of d is shorter.
SizeFits(d) ==
    /\ d.numPlayersPerTeam \in {2, 3}
    /\ \A t \in Teams : d.numPlayersPerTeam <= Len(d[t])

\* C11: in every state, numPlayersPerTeam is 2 or 3 and at most the length of
\* playersA and of playersB, in every mirror, in every document a client has
\* sent to the store and in the document the store holds once a client has
\* written it or whenever it has the field.
C11_ActiveSizeFits ==
    /\ \A c \in Clients : SizeFits(mirror[c])
    /\ \A c \in Clients : \A k \in 1 .. Len(outbox[c]) : SizeFits(outbox[c][k].doc)
    /\ lastCommit # <<>> => Complete(store) /\ SizeFits(store)
    /\ (store # NullDoc /\ "numPlayersPerTeam" \in DOMAIN store) => SizeFits(store)

\* C11's case: a client that had not seen the store yet switched to 3 players
\* from its 2-player mirror; the store holds that document and a mirror shows it.
C11_Witness ==
    \E c \in Clients :
        /\ lastCommit # <<>>
        /\ lastCommit[1].op = "mode"
        /\ store.numPlayersPerTeam = 3
        /\ Len(store.playersA) = 3
        /\ store.playersA[3] = Player("Player 3 Name", 0)
        /\ mirror[c] = store

\* Client c's handler `op` calls updateState.
Calls(c, op) == Mutates(c) /\ Last(outbox'[c]).op = op

\* C12: the document handleMode(num) writes has numPlayersPerTeam = num; each
\* roster starts with the mirror's roster, entry by entry, is as long as the
\* longer of the mirror's roster and num, and every entry beyond the mirror's
\* is the placeholder of its position with score 0; timer, isPaused and
\* pointsToWin are the mirror's.
C12_ModeSwitchFrame ==
    [][\A c \in Clients :
          Calls(c, "mode") =>
            LET w == Last(outbox'[c])
                num == w.upd.numPlayersPerTeam
            IN  /\ num \in {2, 3}
                /\ w.doc.numPlayersPerTeam = num
                /\ \A t \in Teams :
                      LET old == mirror[c][t]
                          new == w.doc[t]
                      IN  /\ Len(new) = Max(Len(old), num)
                          /\ \A k \in 1 .. Len(old) : new[k] = old[k]
                          /\ \A k \in (Len(old) + 1) .. Len(new) :
                                new[k] = [name |-> <<"Player 1 Name", "Player 2 Name",
                                                    "Player 3 Name">>[k],
                                          score |-> 0]
                /\ w.doc.timer = mirror[c].timer
                /\ w.doc.isPaused = mirror[c].isPaused
                /\ w.doc.pointsToWin = mirror[c].pointsToWin]_vars

\* C12's case: a client in 3-player mode whose third player of team B has
\* scored has switched to 2 players; the document in flight keeps that player.
C12_Witness ==
    \E c \in Clients :
        /\ mirror[c].numPlayersPerTeam = 3
        /\ outbox[c] # <<>>
        /\ Last(outbox[c]).op = "mode"
        /\ Last(outbox[c]).doc.numPlayersPerTeam = 2
        /\ Len(Last(outbox[c]).doc.playersB) = 3
        /\ Last(outbox[c]).doc.playersB[3].score > 0
        /\ Last(outbox[c]).doc.playersB = mirror[c].playersB

\* No player of document d has a negative score.
NoNegativeScore(d) ==
    d # NullDoc => \A t \in Teams : \A k \in 1 .. Len(d[t]) : d[t][k].score >= 0

\* C13: in every state no player has a negative score, in the store, in any
\* mirror or in any write in flight; and a press of the - button on a player
\* whose score is 0 in the mirror writes 0 for that player.
C13_ScoresNeverNegative ==
    /\ [](/\ NoNegativeScore(store)
          /\ \A c \in Clients :
                /\ NoNegativeScore(mirror[c])
                /\ \A k \in 1 .. Len(outbox[c]) : NoNegativeScore(outbox[c][k].doc))
    /\ [][\A c \in Clients : \A t \in Teams : \A i \in 1 .. 3 :
             (DecScore(c, t, i) /\ mirror[c][t][i].score = 0)
             => Last(outbox'[c]).doc[t][i].score = 0]_vars

\* C13's case: the first player of team A of the match document had 1
\* point; after two score writes the store holds 0 for that player, and the
\* last write, made from a mirror that already had 0, left it at 0.
C13_Witness ==
    \E c \in Clients :
        /\ budget = 0
        /\ lastCommit = <<[by |-> c, op |-> "score"]>>
        /\ outbox[c] = <<>>
        /\ store.playersA[1] = Player("Ann", 0)
        /\ store.playersB[3] = Player("Fay", 2)
        /\ inbox[c] = <<store>>
        /\ mirror[c] = store

\* C16: when the snapshot callback runs on a document that has every field
\* and at least 3 players in both rosters, the mirror it sets is that
\* document; and the mirror set from any document is left as it is by the
\* repair pass and by the merge with the defaults.
C16_RepairIdempotent ==
    [][\A c \in Clients :
          Observes(c) =>
            LET data == Head(inbox[c]) IN
              /\ (Complete(data) /\ \A t \in Teams : Len(data[t]) >= 3)
                 => mirror'[c] = data
              /\ Repair(mirror'[c]) = mirror'[c]
              /\ Normalize(mirror'[c]) = mirror'[c]]_vars

\* C16's case: the callback of a client has run on the 3-against-3 match
\* document and on nothing else; its mirror is that document.
C16_Witness ==
    \E c \in Clients :
        /\ firstSeen[c] = "doc"
        /\ store = MatchDoc
        /\ lastCommit = <<>>
        /\ inbox[c] = <<>>
        /\ mirror[c] = MatchDoc

\* C19 (as claimed): when a client whose snapshot callback has run presses +
\* on a player while its previous write, a + on the same player made from the
\* same mirror, is still in flight (its echo has not reached the mirror), the
\* document it writes has that player's score 2 above the mirror's, so that
\* with no other writer the store ends with both increments.
C19_SuccessiveIncrements ==
    [][\A c \in Clients : \A t \in Teams : \A i \in 1 .. 3 :
          (/\ IncScore(c, t, i)
           /\ firstSeen[c] # "none"
           /\ outbox[c] # <<>>
           /\ Last(outbox[c]).op = "score"
           /\ Last(outbox[c]).doc = [mirror[c] EXCEPT ![t][i].score = @ + 1])
          => Last(outbox'[c]).doc[t][i].score = mirror[c][t][i].score + 2]_vars

\* C20 (as claimed): from one value of the store to the next, neither
\* playersA nor playersB of the stored document gets shorter, whichever
\* client's write the store commits.
C20_PlayersNeverRemoved ==
    [][(store # NullDoc /\ store' # NullDoc)
          => \A t \in Teams : Len(store'[t]) >= Len(store[t])]_vars

----------------------------------------------------------------------------
(* Further properties of the timer *)

\* C14: every handleResetTimer call writes a document with no end time and
\* isPaused true, whatever the caller's mirror holds; and whenever the store
\* holds a document written by handleResetTimer and a client's mirror is that
\* document, the client computes the full 450 seconds.
C14_ResetTimer ==
    /\ [][\A c \in Clients :
             Calls(c, "resetTimer") =>
               /\ Last(outbox'[c]).doc.timer.endTime = Null
               /\ Last(outbox'[c]).doc.isPaused]_vars
    /\ [](\A c \in Clients :
            (/\ lastCommit # <<>>
             /\ lastCommit[1].op = "resetTimer"
             /\ mirror[c] = store)
            => /\ mirror[c].timer.endTime = Null
               /\ mirror[c].isPaused
               /\ remainingSeconds(c) = INITIAL_TIMER_SECONDS)

\* C14's case: a client reset the running match after its end time had passed
\* (it was showing 0), its clock offset set; the echo is its mirror.
C14_Witness ==
    \E c \in Clients :
        /\ lastCommit = <<[by |-> c, op |-> "resetTimer"]>>
        /\ mirror[c] = store
        /\ wall > RunningDoc.timer.endTime[1]
        /\ timeOffset[c] # 0
        /\ inbox[c] = <<>>
        /\ remainingSeconds(c) = INITIAL_TIMER_SECONDS

\* C15: two clients whose mirrors hold the same end time, whose clock offsets
\* bring their different local clocks to the server time and who render at
\* the same server time compute the same remaining seconds.
C15_SameRemainingAcrossDevices ==
    \A a, b \in Clients :
        (/\ a # b
         /\ mirror[a].timer.endTime = mirror[b].timer.endTime
         /\ CorrectedAtRender(a) = rendered[a]
         /\ CorrectedAtRender(b) = rendered[b]
         /\ rendered[a] = rendered[b])
        => remainingSeconds(a) = remainingSeconds(b)

\* C15's case: two subscribed clients, local clocks 3.8 s apart, both offsets
\* set, the same end time in both mirrors and part of the duration used.
C15_Witness ==
    \E a, b \in Clients :
        /\ a # b
        /\ Subscribers = Clients
        /\ DateNow(a) - DateNow(b) = 3800
        /\ CorrectedAtRender(a) = wall
        /\ CorrectedAtRender(b) = wall
        /\ mirror[a].timer.endTime = mirror[b].timer.endTime
        /\ mirror[a].timer.endTime # Null
        /\ remainingSeconds(a) = 150
        /\ remainingSeconds(b) = 150

\* C18: every handleResume call made while the mirror is running writes a
\* document with isPaused true whose end time, rosters, pointsToWin and
\* numPlayersPerTeam are the mirror's.
C18_PauseFrame ==
    [][\A c \in Clients :
          Calls(c, "pause") =>
            LET doc == Last(outbox'[c]).doc IN
              /\ ~mirror[c].isPaused
              /\ doc.isPaused
              /\ doc.timer.endTime = mirror[c].timer.endTime
              /\ doc.playersA = mirror[c].playersA
              /\ doc.playersB = mirror[c].playersB
              /\ doc.pointsToWin = mirror[c].pointsToWin
              /\ doc.numPlayersPerTeam = mirror[c].numPlayersPerTeam]_vars

\* C18's case: 300 s into the running match a client has pressed Pause; the
\* write in flight is paused and carries the end time of the running match.
C18_Witness ==
    \E c \in Clients :
        /\ wall = 310000
        /\ ~mirror[c].isPaused
        /\ outbox[c] # <<>>
        /\ Last(outbox[c]).op = "pause"
        /\ Last(outbox[c]).doc.isPaused
        /\ Last(outbox[c]).doc.timer.endTime = RunningDoc.timer.endTime
        /\ timerLog[c] # <<>>
        /\ timerLog[c][1].at = wall

----------------------------------------------------------------------------
(* Properties of the subscriptions *)

\* C17: once the cleanup of a client has run, the client stays unsubscribed,
\* the store sends it nothing, and no step (a commit of the store, an offset
\* sample, a snapshot) changes its mirror or its clock offset.
C17_Cancellation ==
    [][\A c \in Clients :
          life[c] = "off" =>
            /\ life'[c] = "off"
            /\ inbox'[c] = <<>>
            /\ mirror'[c] = mirror[c]
            /\ timeOffset'[c] = timeOffset[c]]_vars

\* C17's case: a client that had its offset set and a snapshot processed has
\* cleaned up; since then the other client has written and the store has
\* changed, and the first client's mirror is still the old value.
C17_Witness ==
    \E c, d \in Clients :
        /\ c # d
        /\ life[c] = "off"
        /\ firstSeen[c] = "doc"
        /\ life[d] = "on"
        /\ timeOffset[d] # 0
        /\ lastCommit # <<>>
        /\ lastCommit[1].by = d
        /\ lastCommit[1].op # "bootstrap"
        /\ mirror[c] # store
        /\ mirror[d] = store
        /\ inbox[c] = <<>>

====
